---- MODULE Spec2Model ----
(***************************************************************************)
(* Model of the HALFpipe launcher (run_HALFpipe.py, run_HALFpipe_HS.py):   *)
(* the subject-token expander, the command builder, the FreeSurfer license *)
(* preflight and the control flow of main().                               *)
(*                                                                         *)
(* A Python str is modelled as a sequence of one-character strings, so     *)
(* that strip, startswith, isdigit, isalnum, zfill, split, int and str are *)
(* computed character by character as the interpreter computes them.       *)
(***************************************************************************)
EXTENDS Integers, Sequences, FiniteSets, TLC

(***************************************************************************)
(* Character classes (ASCII part of the str methods the code uses)         *)
(***************************************************************************)
Digits == {"0", "1", "2", "3", "4", "5", "6", "7", "8", "9"}

Letters == {"a", "b", "c", "d", "e", "f", "g", "h", "i", "j", "k", "l", "m",
            "n", "o", "p", "q", "r", "s", "t", "u", "v", "w", "x", "y", "z",
            "A", "B", "C", "D", "E", "F", "G", "H", "I", "J", "K", "L", "M",
            "N", "O", "P", "Q", "R", "S", "T", "U", "V", "W", "X", "Y", "Z"}

Whitespace == {" ", "\t", "\n", "\r"}

\* the literal "sub-"
SubPrefix == <<"s", "u", "b", "-">>

(***************************************************************************)
(* str methods                                                             *)
(***************************************************************************)
RECURSIVE lstrip(_)
lstrip(s) == IF s # <<>> /\ Head(s) \in Whitespace THEN lstrip(Tail(s)) ELSE s

RECURSIVE rstrip(_)
rstrip(s) ==
    IF s # <<>> /\ s[Len(s)] \in Whitespace
    THEN rstrip(SubSeq(s, 1, Len(s) - 1))
    ELSE s

\* str.strip()
strip(s) == rstrip(lstrip(s))

\* str.startswith(p)
startswith(s, p) == Len(s) >= Len(p) /\ SubSeq(s, 1, Len(p)) = p

\* str.isdigit(): non-empty and every character a digit
isdigit(s) == s # <<>> /\ \A i \in 1..Len(s) : s[i] \in Digits

\* str.isalnum(): non-empty and every character a letter or a digit
isalnum(s) == s # <<>> /\ \A i \in 1..Len(s) : s[i] \in (Digits \cup Letters)

\* str.zfill(w) on an unsigned string: left-pad with "0" up to width w
zfill(s, w) ==
    IF Len(s) >= w THEN s ELSE [i \in 1..(w - Len(s)) |-> "0"] \o s

\* str.split(sep) for a one-character separator: the list of the pieces
RECURSIVE split(_, _)
split(s, sep) ==
    IF \A i \in 1..Len(s) : s[i] # sep
    THEN <<s>>
    ELSE LET p == CHOOSE i \in 1..Len(s) :
                      s[i] = sep /\ \A j \in 1..(i - 1) : s[j] # sep
         IN  <<SubSeq(s, 1, p - 1)>> \o split(SubSeq(s, p + 1, Len(s)), sep)

DigitVal(c) ==
    CASE c = "0" -> 0 [] c = "1" -> 1 [] c = "2" -> 2 [] c = "3" -> 3
      [] c = "4" -> 4 [] c = "5" -> 5 [] c = "6" -> 6 [] c = "7" -> 7
      [] c = "8" -> 8 [] c = "9" -> 9

DigitChar(d) ==
    CASE d = 0 -> "0" [] d = 1 -> "1" [] d = 2 -> "2" [] d = 3 -> "3"
      [] d = 4 -> "4" [] d = 5 -> "5" [] d = 6 -> "6" [] d = 7 -> "7"
      [] d = 8 -> "8" [] d = 9 -> "9"

\* int(s) for a string of decimal digits
RECURSIVE int(_)
int(s) ==
    IF s = <<>> THEN 0
    ELSE 10 * int(SubSeq(s, 1, Len(s) - 1)) + DigitVal(s[Len(s)])

\* str(n) for n >= 0
RECURSIVE str(_)
str(n) ==
    IF n < 10 THEN <<DigitChar(n)>>
    ELSE str(n \div 10) \o <<DigitChar(n % 10)>>

(***************************************************************************)
(* Results of operations that may raise                                    *)
(***************************************************************************)
Ok(v) == [ok |-> TRUE, val |-> v, err |-> "none"]
Raise(e) == [ok |-> FALSE, val |-> <<>>, err |-> e]

(***************************************************************************)
(* _RANGE_RE  ^(?P<a>sub-\d+|\d+)\s*-\s*(?P<b>sub-\d+|\d+)$                *)
(***************************************************************************)
\* one alternative of an endpoint group: sub-\d+ | \d+
RangeEndpoint(s) ==
    \/ isdigit(s)
    \/ startswith(s, SubPrefix) /\ isdigit(SubSeq(s, 5, Len(s)))

\* \s*
AllSpace(s) == \A i \in 1..Len(s) : s[i] \in Whitespace

\* every way the pattern matches the whole of tok: t[1] is the last
\* character of group a, t[2] the separating hyphen, t[3] the first
\* character of group b
RangeSplits(tok) ==
    { t \in (1..Len(tok)) \X (1..Len(tok)) \X (1..Len(tok)) :
        /\ t[1] < t[2] /\ t[2] < t[3]
        /\ tok[t[2]] = "-"
        /\ RangeEndpoint(SubSeq(tok, 1, t[1]))
        /\ AllSpace(SubSeq(tok, t[1] + 1, t[2] - 1))
        /\ AllSpace(SubSeq(tok, t[2] + 1, t[3] - 1))
        /\ RangeEndpoint(SubSeq(tok, t[3], Len(tok))) }

\* m.group("a") and m.group("b") of the match at split t
MatchGroups(tok, t) ==
    [matched |-> TRUE, a |-> SubSeq(tok, 1, t[1]), b |-> SubSeq(tok, t[3], Len(tok))]

MatchAmong(tok, splits) ==
    IF splits = {}
    THEN [matched |-> FALSE, a |-> <<>>, b |-> <<>>]
    ELSE MatchGroups(tok, CHOOSE x \in splits : TRUE)

\* _RANGE_RE.match(tok): matched, and the groups a and b
RANGE_RE_match(tok) == MatchAmong(tok, RangeSplits(tok))

(***************************************************************************)
(* _normalize_one_subject_token                                            *)
(***************************************************************************)
\* core: the token without a leading "sub-"
StripPrefix(tok) ==
    IF startswith(tok, SubPrefix) THEN SubSeq(tok, 5, Len(tok)) ELSE tok

\* the checks on the stripped token and its core
NormalizeCore(tok, core) ==
    IF tok = <<>> THEN Raise("EmptyToken")
    ELSE IF isdigit(core) THEN Ok(SubPrefix \o zfill(core, 2))
    ELSE IF isalnum(core) THEN Ok(SubPrefix \o core)
    ELSE Raise("InvalidSubjectToken")

\* variant: pads numeric cores to 3 digits
normalize_one_subject_token_Pad3(tok0) ==
    LET tok  == strip(tok0)
        core == StripPrefix(tok)
    IN  IF tok = <<>> THEN Raise("EmptyToken")
        ELSE IF isdigit(core) THEN Ok(SubPrefix \o zfill(core, 3))
        ELSE IF isalnum(core) THEN Ok(SubPrefix \o core)
        ELSE Raise("InvalidSubjectToken")

\* variant: does not take a leading "sub-" off
normalize_one_subject_token_KeepPrefix(tok0) ==
    NormalizeCore(strip(tok0), strip(tok0))

normalize_one_subject_token(tok0) ==
    NormalizeCore(strip(tok0), StripPrefix(strip(tok0)))

(***************************************************************************)
(* expand_subject_tokens                                                   *)
(***************************************************************************)
\* list(range(a, stop, step)) for step in {1, -1}
RECURSIVE range(_, _, _)
range(a, stop, step) ==
    IF (step > 0 /\ a >= stop) \/ (step < 0 /\ a <= stop)
    THEN <<>>
    ELSE <<a>> \o range(a + step, stop, step)

\* step = 1 if b_num >= a_num else -1
Step(a_num, b_num) == IF b_num >= a_num THEN 1 ELSE -1

\* a_num = int(a_norm.split("-")[1])
EndpointNumber(norm) == int(split(norm.val, "-")[2])

\* f"sub-{str(n).zfill(2)}" for every n
FormatAll(ns) == [i \in 1..Len(ns) |-> SubPrefix \o zfill(str(ns[i]), 2)]

\* variant: a descending range is swapped and walked upwards
WalkRange_Swapped(a_num, b_num) ==
    IF b_num >= a_num
    THEN FormatAll(range(a_num, b_num + 1, 1))
    ELSE FormatAll(range(b_num, a_num + 1, 1))

\* the loop over range(a_num, b_num + step, step)
WalkRange(a_num, b_num) ==
    FormatAll(range(a_num, b_num + Step(a_num, b_num), Step(a_num, b_num)))

ExpandNormalized(a_norm, b_norm) ==
    IF ~a_norm.ok THEN a_norm
    ELSE IF ~b_norm.ok THEN b_norm
    ELSE Ok(WalkRange(EndpointNumber(a_norm), EndpointNumber(b_norm)))

\* the identifiers appended for a matched range
ExpandRange(m) ==
    ExpandNormalized(normalize_one_subject_token(m.a), normalize_one_subject_token(m.b))

\* expanded.append(_normalize_one_subject_token(tok)), or its exception
AppendOne(r) == IF r.ok THEN Ok(<<r.val>>) ELSE r

ExpandMatched(tok, m) ==
    IF m.matched THEN ExpandRange(m) ELSE AppendOne(normalize_one_subject_token(tok))

\* variant: an empty token is normalized (and rejected) instead of skipped
ExpandStripped_Raising(tok) == ExpandMatched(tok, RANGE_RE_match(tok))

\* the body of the for loop after tok = tok.strip()
ExpandStripped(tok) ==
    IF tok = <<>> THEN Ok(<<>>) ELSE ExpandMatched(tok, RANGE_RE_match(tok))

\* one iteration of the for loop: what the token appends to expanded
ExpandToken(tok0) == ExpandStripped(strip(tok0))

\* the for loop over tokens; an exception ends it
RECURSIVE ExpandLoop(_, _)
ExpandRest(rest, expanded, r) ==
    IF r.ok THEN ExpandLoop(rest, expanded \o r.val) ELSE r

ExpandLoop(toks, expanded) ==
    IF toks = <<>> THEN Ok(expanded)
    ELSE ExpandRest(Tail(toks), expanded, ExpandToken(Head(toks)))

\* variant: keeps every occurrence
Dedup_KeepAll(expanded, seen, out) == out \o expanded

\* de-duplicate while preserving order
RECURSIVE Dedup(_, _, _)
Dedup(expanded, seen, out) ==
    IF expanded = <<>> THEN out
    ELSE IF Head(expanded) \notin seen
    THEN Dedup(Tail(expanded), seen \cup {Head(expanded)}, Append(out, Head(expanded)))
    ELSE Dedup(Tail(expanded), seen, out)

\* return out, unless the loop raised
ReturnDeduped(r) == IF r.ok THEN Ok(Dedup(r.val, {}, <<>>)) ELSE r

expand_subject_tokens(toks) == ReturnDeduped(ExpandLoop(toks, <<>>))

(***************************************************************************)
(* Values shared by the builder, the preflight and main                    *)
(***************************************************************************)
\* Python None for an optional string; an optional int is <<>> or <<n>>,
\* an optional list (nargs="+", never empty when given) is <<>> when absent
None == "<None>"

bidsdir == "/bids"
workdir == "/work"

\* one command-line argument, as the sequence of the pieces it is formatted
\* from; a SubjectId (a sequence of characters) is such a sequence too
Lit(x) == <<x>>

\* str(args.n_procs)
pystr(n) ==
    IF n = <<>> THEN <<"None">>
    ELSE IF n[1] < 0 THEN <<"-">> \o str(0 - n[1])
    ELSE str(n[1])

\* ",".join(binds), each bind being f"{p}:{p}"
RECURSIVE JoinBinds(_)
JoinBinds(paths) ==
    IF paths = <<>> THEN <<>>
    ELSE IF Len(paths) = 1 THEN <<paths[1], ":", paths[1]>>
    ELSE <<paths[1], ":", paths[1], ",">> \o JoinBinds(Tail(paths))

(***************************************************************************)
(* ensure_freesurfer_license                                               *)
(***************************************************************************)
Absent == "absent"

\* what shutil.copy2 may do when the destination directory exists: succeed,
\* or raise PermissionError or another OSError, leaving no file or a
\* partially written one
CopyOutcomes ==
    { [raised |-> "none", left |-> "copy"],
      [raised |-> "PermissionError", left |-> Absent],
      [raised |-> "PermissionError", left |-> "partial"],
      [raised |-> "OSError", left |-> Absent],
      [raised |-> "OSError", left |-> "partial"] }

\* variant: copies whenever the source exists, also over a present file
ensure_freesurfer_license_Overwriting(f, oc) ==
    IF f.source = Absent /\ f.dest # Absent
    THEN [res |-> Ok(Lit("/work/license.txt")), fs |-> f]
    ELSE IF f.source = Absent
    THEN [res |-> Raise("LicenseSourceMissing"), fs |-> f]
    ELSE IF ~f.workdir_isdir
    THEN [res |-> Raise("LicenseCopyFailed:OSError"), fs |-> f]
    ELSE IF oc.raised # "none"
    THEN [res |-> Raise("LicenseCopyFailed:" \o oc.raised),
          fs  |-> [f EXCEPT !.dest = oc.left]]
    ELSE [res |-> Ok(Lit("/work/license.txt")),
          fs  |-> [f EXCEPT !.dest = f.source]]

\* the result of the call and the filesystem it leaves; oc is what copy2 does
ensure_freesurfer_license(f, oc) ==
    IF f.dest # Absent
    THEN [res |-> Ok(Lit("/work/license.txt")), fs |-> f]
    ELSE IF f.source = Absent
    THEN [res |-> Raise("LicenseSourceMissing"), fs |-> f]
    ELSE IF ~f.workdir_isdir
    THEN [res |-> Raise("LicenseCopyFailed:OSError"), fs |-> f]
    ELSE IF oc.raised # "none"
    THEN [res |-> Raise("LicenseCopyFailed:" \o oc.raised),
          fs  |-> [f EXCEPT !.dest = oc.left]]
    ELSE [res |-> Ok(Lit("/work/license.txt")),
          fs  |-> [f EXCEPT !.dest = f.source]]

(***************************************************************************)
(* Flag helpers of run_HALFpipe.py                                         *)
(***************************************************************************)
add_common_flags(cmd, a) ==
    cmd \o (IF a.verbose THEN <<Lit("--verbose")>> ELSE <<>>)
        \o (IF a.debug THEN <<Lit("--debug")>> ELSE <<>>)

\* the flags appended for --only-step and --skip-step
AdvancedFlags(a) ==
    (IF a.only_step # None
     THEN <<<<"--only-", a.only_step>>>>
          \o (IF a.only_step \in {"run", "workflow"}
              THEN <<Lit("--workdir"), Lit(workdir)>> ELSE <<>>)
     ELSE <<>>)
    \o
    (IF a.skip_step # None
     THEN <<<<"--skip-", a.skip_step>>>>
          \o (IF a.skip_step = "spec-ui"
              THEN <<Lit("--workdir"), Lit(workdir)>> ELSE <<>>)
     ELSE <<>>)

add_halfpipe_advanced_flags(cmd, a, f) ==
    IF ~f.workdir_isdir
    THEN Raise("MissingRequiredOption:workdir")
    ELSE Ok(cmd \o AdvancedFlags(a))

\* the repeated pairs <flag, sub> for one list of SubjectIds
FlagPairs(flag, subs) ==
    [i \in 1..(2 * Len(subs)) |->
        IF i % 2 = 1 THEN Lit(flag) ELSE subs[i \div 2]]

\* include_subjects / exclude_subjects, or no list when the option is absent
ExpandOption(toks) ==
    IF toks # <<>> THEN expand_subject_tokens(toks) ELSE Ok(<<>>)

AppendSubjects(cmd, inc, exc) ==
    IF ~inc.ok THEN Raise("SubjectInclude:" \o inc.err)
    ELSE IF ~exc.ok THEN Raise("SubjectExclude:" \o exc.err)
    ELSE Ok(cmd \o FlagPairs("--subject-include", inc.val)
                \o FlagPairs("--subject-exclude", exc.val))

add_subject_flags(cmd, a) ==
    AppendSubjects(cmd, ExpandOption(a.subject_include), ExpandOption(a.subject_exclude))

(***************************************************************************)
(* build_command of run_HALFpipe.py                                        *)
(***************************************************************************)
Binds(a) == <<bidsdir, workdir>> \o (IF a.seeddir # None THEN <<a.seeddir>> ELSE <<>>)

base_exec(a, sif) ==
    <<Lit("singularity"), Lit("exec"), Lit("--bind"), JoinBinds(Binds(a)),
      Lit(sif), Lit("halfpipe"), Lit("--tui")>>

base_run(a, sif) ==
    <<Lit("singularity"), Lit("run"), Lit("--bind"), JoinBinds(Binds(a)), Lit(sif)>>

\* cmd = add_subject_flags(cmd, args), when the advanced flags did not raise
ThenSubjects(adv, a) == IF adv.ok THEN add_subject_flags(adv.val, a) ELSE adv

\* cmd += ["--nipype-n-procs", str(args.n_procs)] and the tail of the mode
ThenProcs(sub, a, tail) ==
    IF sub.ok
    THEN Ok(sub.val \o <<Lit("--nipype-n-procs"), pystr(a.n_procs)>> \o tail)
    ELSE sub

\* common flags, advanced flags, subject flags, process count, then tail
LayeredCommand(a, sif, f, tail) ==
    ThenProcs(
        ThenSubjects(
            add_halfpipe_advanced_flags(add_common_flags(base_exec(a, sif), a), a, f),
            a),
        a, tail)

\* what the modes tui, model and group-level append last
ModeTail(a) ==
    IF a.mode = "tui" THEN <<>>
    ELSE IF a.mode = "model" THEN <<Lit("--only-model-chunk")>>
    ELSE <<Lit("group-level"), Lit("--input-directory"), Lit(a.input_directory)>>

\* variant: the group-level check comes before the environment is read
build_command_InputFirst(a, sif, f) ==
    IF a.mode = "group-level" /\ a.input_directory \in {None, ""}
    THEN Raise("MissingRequiredOption:input-directory")
    ELSE IF sif \in {None, ""} THEN Raise("MissingEnvironment:unset")
    ELSE IF ~f.sif_exists THEN Raise("MissingEnvironment:missing")
    ELSE IF a.seeddir # None /\ ~f.seed_isdir THEN Raise("InvalidSeedDirectory")
    ELSE IF a.mode = "ui-old" THEN Ok(add_common_flags(base_run(a, sif), a))
    ELSE LayeredCommand(a, sif, f, ModeTail(a))

\* a: args, sif: os.getenv("HALFpipe_sif"), f: the filesystem
build_command(a, sif, f) ==
    IF sif \in {None, ""} THEN Raise("MissingEnvironment:unset")
    ELSE IF ~f.sif_exists THEN Raise("MissingEnvironment:missing")
    ELSE IF a.seeddir # None /\ ~f.seed_isdir THEN Raise("InvalidSeedDirectory")
    ELSE IF a.mode = "ui-old" THEN Ok(add_common_flags(base_run(a, sif), a))
    ELSE IF a.mode \notin {"tui", "model", "group-level"} THEN Raise("UnknownMode")
    ELSE IF a.mode = "group-level" /\ a.input_directory \in {None, ""}
    THEN Raise("MissingRequiredOption:input-directory")
    ELSE LayeredCommand(a, sif, f, ModeTail(a))

(***************************************************************************)
(* build_command of run_HALFpipe_HS.py                                     *)
(***************************************************************************)
add_halfpipe_advanced_flags_HS(cmd, a) ==
    cmd \o (IF a.keep # None THEN <<Lit("--keep"), Lit(a.keep)>> ELSE <<>>)
        \o (IF a.only_step # None THEN <<<<"--only-", a.only_step>>>> ELSE <<>>)
        \o (IF a.skip_step # None THEN <<<<"--skip-", a.skip_step>>>> ELSE <<>>)

LayeredCommand_HS(a, sif, tail) ==
    add_halfpipe_advanced_flags_HS(add_common_flags(base_exec(a, sif), a), a) \o tail

build_command_HS(a, sif, f) ==
    IF sif \in {None, ""} THEN Raise("MissingEnvironment:unset")
    ELSE IF ~f.sif_exists THEN Raise("MissingEnvironment:missing")
    ELSE IF a.seeddir # None /\ ~f.seed_isdir THEN Raise("InvalidSeedDirectory")
    ELSE IF a.mode = "ui-old" THEN Ok(add_common_flags(base_run(a, sif), a))
    ELSE IF a.mode \notin {"tui", "model", "group-level"} THEN Raise("UnknownMode")
    ELSE IF a.mode = "group-level" /\ a.input_directory \in {None, ""}
    THEN Raise("MissingRequiredOption:input-directory")
    ELSE Ok(LayeredCommand_HS(a, sif, ModeTail(a)))

(***************************************************************************)
(* State                                                                   *)
(***************************************************************************)
VARIABLES
    tokens,     \* expander: the argument of expand_subject_tokens
    result,     \* expander: what the call returned or raised
    rerun,      \* expander: the result of expanding the returned list again
    epc,        \* expander: "idle", "call", "returned", "reexpanded"
    args,       \* the argparse namespace
    environ,    \* the value of the environment variable HALFpipe_sif
    fs,         \* the filesystem: directories, image, license source and copy
    pc,         \* where main (or a direct call of build_command) stands
    outcome,    \* the command vector built, or the exception raised
    spawned,    \* external processes started in this run
    callee      \* which build_command a direct call went to

evars == <<tokens, result, rerun, epc>>
mvars == <<args, environ, fs, pc, outcome, spawned, callee>>
vars == <<tokens, result, rerun, epc, args, environ, fs, pc, outcome, spawned, callee>>

(***************************************************************************)
(* Inputs of the launcher                                                  *)
(***************************************************************************)
\* most options of one command line that differ from their defaults
MaxOptions == 2

Modes == {"ui-old", "tui", "model", "group-level"}
Steps == {"spec-ui", "workflow", "run"}

DefaultArgs ==
    [mode |-> "tui", verbose |-> FALSE, debug |-> FALSE,
     input_directory |-> None, seeddir |-> None,
     only_step |-> None, skip_step |-> None,
     subject_include |-> <<>>, subject_exclude |-> <<>>,
     n_procs |-> <<>>, dry_run |-> FALSE, keep |-> None]

\* every way to give one option a value other than its default
Overrides ==
    { <<"mode", "ui-old">>, <<"mode", "model">>, <<"mode", "group-level">>,
      <<"verbose", TRUE>>, <<"debug", TRUE>>, <<"dry_run", TRUE>>,
      <<"input_directory", "">>, <<"input_directory", "/input">>,
      <<"seeddir", "/seed">>,
      <<"only_step", "spec-ui">>, <<"only_step", "workflow">>, <<"only_step", "run">>,
      <<"skip_step", "spec-ui">>, <<"skip_step", "workflow">>, <<"skip_step", "run">>,
      <<"subject_include", << <<"0", "1", "-", "0", "2">>, <<"2">> >> >>,
      <<"subject_include", << <<"s", "u", "b", "-">> >> >>,
      <<"subject_exclude", << <<"0", "1", "-", "0", "2">>, <<"2">> >> >>,
      <<"subject_exclude", << <<"s", "u", "b", "-">> >> >>,
      <<"n_procs", <<0>> >>, <<"n_procs", <<8>> >>,
      <<"keep", "all">>, <<"keep", "some">>, <<"keep", "none">> }

\* the namespaces with at most n options given
RECURSIVE ArgsWith(_)
ArgsWith(n) ==
    IF n = 0 THEN {DefaultArgs}
    ELSE LET less == ArgsWith(n - 1)
         IN  less \cup { [a EXCEPT ![o[1]] = o[2]] :
                           <<a, o>> \in { x \in less \X Overrides :
                                            x[1][x[2][1]] = DefaultArgs[x[2][1]] } }

\* namespaces a caller can hand to build_command
ArgsSet == ArgsWith(MaxOptions)

\* command lines of run_HALFpipe.py, which has no --keep
ArgvSet == { a \in ArgsSet : a.keep = None }

\* os.cpu_count(): None (0 here) or a count
CpuCounts == {0, 4, 128}
default_max_procs == 100

EnvValues == {None, "", "/img.sif"}

\* filesystems: the image exists only under a name, the license copy only
\* in an existing working directory
Filesystems ==
    { f \in [workdir_isdir : BOOLEAN, seed_isdir : BOOLEAN, sif_exists : BOOLEAN,
             source : {Absent, "v1"}, dest : {Absent, "v0"}] :
        f.dest # Absent => f.workdir_isdir }

IdleExpand ==
    /\ tokens = <<>>
    /\ result = [ok |-> FALSE, val |-> <<>>, err |-> "not called"]
    /\ rerun = [ok |-> FALSE, val |-> <<>>, err |-> "not called"]
    /\ epc = "idle"

IdleMain ==
    /\ args = DefaultArgs
    /\ environ = None
    /\ fs = [workdir_isdir |-> FALSE, seed_isdir |-> FALSE, sif_exists |-> FALSE,
             source |-> Absent, dest |-> Absent]
    /\ pc = "idle"
    /\ outcome = [ok |-> FALSE, val |-> <<>>, err |-> "not called"]
    /\ spawned = 0
    /\ callee = "none"

(***************************************************************************)
(* main() of run_HALFpipe.py, run after run on the same machine            *)
(***************************************************************************)
InitMain ==
    /\ IdleExpand
    /\ args = DefaultArgs
    /\ environ \in EnvValues
    /\ fs \in Filesystems
    /\ (environ \in {None, ""} => ~fs.sif_exists)
    /\ pc = "start"
    /\ outcome = [ok |-> FALSE, val |-> <<>>, err |-> "not called"]
    /\ spawned = 0
    /\ callee = "none"

\* variant: --only-step and --skip-step are plain options
ParseArgs_NoGroup ==
    /\ pc = "start"
    /\ \E argv \in ArgvSet :
          /\ args' = argv
          /\ pc' = "license"
          /\ outcome' = outcome
    /\ UNCHANGED <<environ, fs, spawned, callee>>
    /\ UNCHANGED evars

\* args = parser.parse_args(): the mutually exclusive group makes argparse
\* exit with a usage error when both --only-step and --skip-step are given
ParseArgs ==
    /\ pc = "start"
    /\ \E argv \in ArgvSet :
          /\ args' = argv
          /\ IF argv.only_step # None /\ argv.skip_step # None
             THEN pc' = "failed" /\ outcome' = Raise("usage")
             ELSE pc' = "license" /\ outcome' = outcome
    /\ UNCHANGED <<environ, fs, spawned, callee>>
    /\ UNCHANGED evars

\* license_path = ensure_freesurfer_license(args.workdir, fs_license_source)
EnsureLicense ==
    /\ pc = "license"
    /\ \E oc \in CopyOutcomes :
          LET r == ensure_freesurfer_license(fs, oc)
          IN  /\ fs' = r.fs
              /\ IF r.res.ok
                 THEN pc' = "nprocs" /\ outcome' = outcome
                 ELSE pc' = "failed" /\ outcome' = r.res
    /\ UNCHANGED <<args, environ, spawned, callee>>
    /\ UNCHANGED evars

\* available = os.cpu_count() or 1, and the --n-procs default and check
CheckNProcs ==
    /\ pc = "nprocs"
    /\ \E cpu \in CpuCounts :
          LET available == IF cpu = 0 THEN 1 ELSE cpu
              capped == IF available < default_max_procs
                        THEN available ELSE default_max_procs
          IN  IF args.n_procs = <<>>
              THEN /\ args' = [args EXCEPT !.n_procs = <<capped>>]
                   /\ pc' = "build" /\ outcome' = outcome
              ELSE IF args.n_procs[1] < 1
              THEN /\ args' = args
                   /\ pc' = "failed" /\ outcome' = Raise("NProcsBelowOne")
              ELSE /\ args' = args
                   /\ pc' = "build" /\ outcome' = outcome
    /\ UNCHANGED <<environ, fs, spawned, callee>>
    /\ UNCHANGED evars

\* cmd = build_command(args)
Build ==
    /\ pc = "build"
    /\ outcome' = build_command(args, environ, fs)
    /\ pc' = IF outcome'.ok THEN "handoff" ELSE "failed"
    /\ UNCHANGED <<args, environ, fs, spawned, callee>>
    /\ UNCHANGED evars

\* if args.dry_run: return 0
DryRunReturn ==
    /\ pc = "handoff"
    /\ args.dry_run
    /\ pc' = "done"
    /\ UNCHANGED <<args, environ, fs, outcome, spawned, callee>>
    /\ UNCHANGED evars

\* variant: the command is run even under --dry-run
Spawn_Always ==
    /\ pc = "handoff"
    /\ spawned' = spawned + 1
    /\ pc' = "running"
    /\ UNCHANGED <<args, environ, fs, outcome, callee>>
    /\ UNCHANGED evars

\* subprocess.run(cmd, check=True): the process is started
Spawn ==
    /\ pc = "handoff"
    /\ ~args.dry_run
    /\ spawned' = spawned + 1
    /\ pc' = "running"
    /\ UNCHANGED <<args, environ, fs, outcome, callee>>
    /\ UNCHANGED evars

\* subprocess.run returns, or raises CalledProcessError on a non-zero status
ProcessExit ==
    /\ pc = "running"
    /\ \E status \in {0, 1} :
          IF status = 0
          THEN pc' = "done" /\ outcome' = outcome
          ELSE pc' = "failed" /\ outcome' = Raise("CalledProcessError")
    /\ UNCHANGED <<args, environ, fs, spawned, callee>>
    /\ UNCHANGED evars

\* the launcher is started again; the filesystem stays as the run left it
NewRun ==
    /\ pc \in {"done", "failed"}
    /\ pc' = "start"
    /\ args' = DefaultArgs
    /\ outcome' = [ok |-> FALSE, val |-> <<>>, err |-> "not called"]
    /\ spawned' = 0
    /\ UNCHANGED <<environ, fs, callee>>
    /\ UNCHANGED evars

\* between runs the user replaces or removes the license source, the seed
\* directory, the image or the variable
EnvChange ==
    /\ pc = "start"
    /\ \E e \in EnvValues, f \in Filesystems :
          /\ f.workdir_isdir = fs.workdir_isdir
          /\ f.dest = fs.dest
          /\ (e \in {None, ""} => ~f.sif_exists)
          /\ (e # environ \/ f # fs)
          /\ environ' = e
          /\ fs' = f
    /\ UNCHANGED <<args, pc, outcome, spawned, callee>>
    /\ UNCHANGED evars

NextMain ==
    \/ ParseArgs \/ EnsureLicense \/ CheckNProcs \/ Build
    \/ DryRunReturn \/ Spawn \/ ProcessExit \/ NewRun \/ EnvChange

SpecMain == InitMain /\ [][NextMain]_vars

(***************************************************************************)
(* build_command called directly, on any namespace and any environment     *)
(***************************************************************************)
InitBuild ==
    /\ IdleExpand
    /\ args \in ArgsSet
    /\ environ \in EnvValues
    /\ fs \in Filesystems
    /\ fs.source = Absent /\ fs.dest = Absent
    /\ (environ \in {None, ""} => ~fs.sif_exists)
    /\ pc = "call"
    /\ outcome = [ok |-> FALSE, val |-> <<>>, err |-> "not called"]
    /\ spawned = 0
    /\ callee = "none"

\* run_HALFpipe.build_command(args)
BuildCall ==
    /\ pc = "call"
    /\ args.keep = None
    /\ outcome' = build_command(args, environ, fs)
    /\ callee' = "run_HALFpipe"
    /\ pc' = "returned"
    /\ UNCHANGED <<args, environ, fs, spawned>>
    /\ UNCHANGED evars

\* run_HALFpipe_HS.build_command(args)
BuildCallHS ==
    /\ pc = "call"
    /\ args.subject_include = <<>> /\ args.subject_exclude = <<>>
    /\ args.n_procs = <<>>
    /\ outcome' = build_command_HS(args, environ, fs)
    /\ callee' = "run_HALFpipe_HS"
    /\ pc' = "returned"
    /\ UNCHANGED <<args, environ, fs, spawned>>
    /\ UNCHANGED evars

NextBuild == BuildCall \/ BuildCallHS

SpecBuild == InitBuild /\ [][NextBuild]_vars

(***************************************************************************)
(* Inputs of the expander                                                  *)
(***************************************************************************)
\* longest free-form token (before an optional "sub-" is put in front)
MaxLen == 3
\* most digits of a generated range endpoint
MaxEndLen == 2
\* longest token list
MaxTokens == 3

Alphabet == {"0", "1", "a", "B", "-", " "}
RangeDigits == {"0", "1", "2"}

Strings(chars, n) == UNION { [1..k -> chars] : k \in 0..n }

\* free-form tokens: every string over Alphabet, bare and behind "sub-"
FreeTokens ==
    Strings(Alphabet, MaxLen) \cup { SubPrefix \o s : s \in Strings(Alphabet, MaxLen) }

EndDigits == Strings(RangeDigits, MaxEndLen) \ {<<>>}
Endpoints == EndDigits \cup { SubPrefix \o d : d \in EndDigits }
Gaps == {<<>>, <<" ">>}

\* range tokens: all four prefix combinations, with and without blanks
RangeTokens ==
    { a \o g1 \o <<"-">> \o g2 \o b : a \in Endpoints, b \in Endpoints,
                                      g1 \in Gaps, g2 \in Gaps }

\* tokens of the help texts, the error message and the docstring
ExampleTokens ==
    { <<"0", "1", "-", "0", "9">>,
      <<"s", "u", "b", "-", "0", "1", "-", "s", "u", "b", "-", "0", "9">>,
      <<"9", "9", "-", "1", "0", "1">>,
      <<"1", "0", "1", "-", "9", "8">>,
      <<"0", "0", "7">>,
      <<"s", "u", "b", "-", "2", "0">>,
      <<"s", "u", "b", "-", "f", "o", "o", "-", "s", "u", "b", "-", "b", "a", "r">>,
      <<"s", "u", "b", "-", "s", "u", "b", "-", "0", "1">>,
      <<" ", "0", "3", " ", "-", " ", "0", "1", " ">> }

\* tokens combined into longer lists
ListTokens ==
    { <<>>, <<" ">>, <<"1">>, <<"0", "1">>, <<"s", "u", "b", "-", "0", "1">>,
      <<"2">>, <<"1", "-", "3">>, <<"3", "-", "2">>, <<"a", "b", "c">>,
      <<"s", "u", "b", "-", "a", "b", "c">>, <<"s", "u", "b", "-">> }

\* endpoints written with more zeros than the two-digit padding needs
PaddedEndpoints ==
    Endpoints \cup { <<"0", "0", "1">>, <<"s", "u", "b", "-", "0", "0", "1">>,
                     <<"0", "1", "0">>, <<"0", "0", "0", "2">> }

\* ranges between such endpoints
PaddedRangeTokens ==
    { a \o <<"-">> \o b : a \in PaddedEndpoints, b \in PaddedEndpoints }

\* a number given alone and again as the range from itself to itself
EchoLists == { <<d, d \o <<"-">> \o d>> : d \in PaddedEndpoints }

TokenLists ==
    { <<t>> : t \in FreeTokens \cup RangeTokens \cup ExampleTokens
                     \cup PaddedEndpoints \cup PaddedRangeTokens }
        \cup Strings(ListTokens, MaxTokens) \cup EchoLists

(***************************************************************************)
(* Expander as a state machine: call, then feed the output back            *)
(***************************************************************************)
InitExpand ==
    /\ IdleMain
    /\ tokens \in TokenLists
    /\ result = [ok |-> FALSE, val |-> <<>>, err |-> "not called"]
    /\ rerun = [ok |-> FALSE, val |-> <<>>, err |-> "not called"]
    /\ epc = "call"

\* include_subjects = expand_subject_tokens(args.subject_include)
ExpandCall ==
    /\ epc = "call"
    /\ result' = expand_subject_tokens(tokens)
    /\ epc' = "returned"
    /\ UNCHANGED <<tokens, rerun>>
    /\ UNCHANGED mvars

\* expand_subject_tokens applied to its own output
ReExpand ==
    /\ epc = "returned"
    /\ result.ok
    /\ rerun' = expand_subject_tokens(result.val)
    /\ epc' = "reexpanded"
    /\ UNCHANGED <<tokens, result>>
    /\ UNCHANGED mvars

NextExpand == ExpandCall \/ ReExpand

SpecExpand == InitExpand /\ [][NextExpand]_vars

(***************************************************************************)
(* Properties of the expander                                              *)
(***************************************************************************)
\* a token that is empty after trimming
Blank(t) == strip(t) = <<>>
NonBlank(t) == ~Blank(t)

AllIn(s, chars) == \A i \in 1..Len(s) : s[i] \in chars

\* the digits of a range endpoint (bare or behind "sub-"), <<>> if s is none
EndpointDigits(s) ==
    IF s # <<>> /\ AllIn(s, Digits) THEN s
    ELSE IF Len(s) > 4 /\ SubSeq(s, 1, 4) = SubPrefix
            /\ AllIn(SubSeq(s, 5, Len(s)), Digits)
         THEN SubSeq(s, 5, Len(s))
         ELSE <<>>

LeftOf(t, h) == rstrip(SubSeq(t, 1, h - 1))
RightOf(t, h) == lstrip(SubSeq(t, h + 1, Len(t)))

\* t reads '<a>-<b>' with the hyphen at position h
IsRangeAt(t, h) ==
    /\ t[h] = "-"
    /\ EndpointDigits(LeftOf(t, h)) # <<>>
    /\ EndpointDigits(RightOf(t, h)) # <<>>

\* 'sub-' plus the value in decimal, zero-padded to at least 2 digits
Render(n) == SubPrefix \o (IF n < 10 THEN <<"0">> \o str(n) ELSE str(n))

\* the inclusive walk from a to b, in that direction
Walk(a, b) ==
    IF b >= a
    THEN [i \in 1..(b - a + 1) |-> Render(a + i - 1)]
    ELSE [i \in 1..(a - b + 1) |-> Render(a - i + 1)]

\* C1 as claimed: a list with an empty or all-whitespace token makes the
\* expansion fail with EmptyToken.
C1_BlankTokenFails ==
    (epc = "returned" /\ \E i \in 1..Len(tokens) : Blank(tokens[i]))
        => (~result.ok /\ result.err = "EmptyToken")

\* C1 as amended: empty and all-whitespace tokens are skipped. The expansion
\* never fails with EmptyToken, it returns what the list without its blank
\* tokens returns, and a list of blank tokens only returns the empty list.
C1_BlankTokensSkipped ==
    epc = "returned" =>
        /\ result.err # "EmptyToken"
        /\ result = expand_subject_tokens(SelectSeq(tokens, NonBlank))
        /\ (\A i \in 1..Len(tokens) : Blank(tokens[i])) => result = Ok(<<>>)

C1_Witness ==
    /\ epc = "returned"
    /\ Len(tokens) = 3
    /\ Blank(tokens[1]) /\ NonBlank(tokens[2]) /\ Blank(tokens[3])
    /\ result.ok /\ Len(result.val) = 1

\* C2: a range token '<a>-<b>' with bare or 'sub-'-prefixed digit endpoints
\* expands to exactly the inclusive walk from int(a) to int(b), ascending
\* when b >= a and descending when b < a, each value rendered as 'sub-' plus
\* the value zero-padded to at least 2 digits.
C2_RangeWalk ==
    (epc = "returned" /\ Len(tokens) = 1) =>
        LET t == strip(tokens[1])
        IN  \A h \in 1..Len(t) :
                IsRangeAt(t, h) =>
                    result = Ok(Walk(int(EndpointDigits(LeftOf(t, h))),
                                     int(EndpointDigits(RightOf(t, h)))))

\* 'sub-11-2': descending, mixed prefixes, crossing from two digits to one
C2_Witness ==
    /\ epc = "returned"
    /\ tokens = << <<"s", "u", "b", "-", "1", "1", "-", "2">> >>
    /\ result.ok
    /\ Len(result.val) = 10
    /\ result.val[1] = <<"s", "u", "b", "-", "1", "1">>
    /\ result.val[10] = <<"s", "u", "b", "-", "0", "2">>

\* C3: a single non-range token, trimmed and with one leading 'sub-' taken
\* off: all digits gives 'sub-' plus the digits left-padded with zeros to at
\* least 2; non-empty letters/digits gives 'sub-' plus the remainder
\* unchanged; anything else fails with InvalidSubjectToken.
C3_SingleToken ==
    (epc = "returned" /\ Len(tokens) = 1) =>
        LET t   == strip(tokens[1])
            rem == IF Len(t) >= 4 /\ SubSeq(t, 1, 4) = SubPrefix
                   THEN SubSeq(t, 5, Len(t))
                   ELSE t
        IN  (t # <<>> /\ \A h \in 1..Len(t) : ~IsRangeAt(t, h)) =>
                IF rem # <<>> /\ AllIn(rem, Digits)
                THEN result = Ok(<< SubPrefix \o
                                    (IF Len(rem) < 2 THEN <<"0">> \o rem ELSE rem) >>)
                ELSE IF rem # <<>> /\ AllIn(rem, Digits \cup Letters)
                THEN result = Ok(<< SubPrefix \o rem >>)
                ELSE result = Raise("InvalidSubjectToken")

\* ' sub-1 ' is trimmed, loses its prefix and is padded
C3_Witness ==
    /\ epc = "returned"
    /\ tokens = << <<"s", "u", "b", "-", "1", " ">> >>
    /\ result = Ok(<< <<"s", "u", "b", "-", "0", "1">> >>)

\* what the tokens append, one after the other, before de-duplication
RECURSIVE PerTokenConcat(_)
PerTokenConcat(ts) ==
    IF ts = <<>> THEN <<>>
    ELSE ExpandToken(Head(ts)).val \o PerTokenConcat(Tail(ts))

FirstPos(s, x) ==
    CHOOSE i \in 1..Len(s) : s[i] = x /\ \A j \in 1..(i - 1) : s[j] # x

\* C4: a successful expansion holds no SubjectId twice, holds exactly the
\* SubjectIds of the per-token expansions, and orders them by their first
\* occurrence in the concatenated per-token expansion.
C4_DedupFirstOccurrence ==
    (epc = "returned" /\ result.ok) =>
        LET cat == PerTokenConcat(tokens)
            out == result.val
        IN  /\ { out[i] : i \in 1..Len(out) } = { cat[i] : i \in 1..Len(cat) }
            /\ \A i, j \in 1..Len(out) :
                   i < j => /\ out[i] # out[j]
                            /\ FirstPos(cat, out[i]) < FirstPos(cat, out[j])

\* a literal and a range that both produce the same SubjectId
C4_Witness ==
    /\ epc = "returned"
    /\ result.ok
    /\ Len(tokens) = 2
    /\ Len(result.val) = 3
    /\ Len(PerTokenConcat(tokens)) = 4
    /\ \E h \in 1..Len(tokens[2]) : IsRangeAt(tokens[2], h)

\* C5: expanding the output of a successful expansion succeeds and returns
\* the same list.
C5_Idempotent ==
    epc = "reexpanded" => (rerun.ok /\ rerun = result)

C5_Witness ==
    /\ epc = "reexpanded"
    /\ Len(tokens) = 3
    /\ Len(result.val) = 3
    /\ \E i \in 1..3 : ~AllIn(SubSeq(result.val[i], 5, Len(result.val[i])), Digits)

(***************************************************************************)
(* Properties of the launcher                                              *)
(***************************************************************************)
\* the command vector holds an argument that starts with the piece p
HasFlag(cmd, p) == \E i \in 1..Len(cmd) : cmd[i][1] = p

NoInputDirectory(a) == a.input_directory \in {None, ""}

\* the selections for which '--workdir <dir>' is added to the vector
NeedsWorkdir(a) ==
    \/ a.only_step \in {"run", "workflow"}
    \/ a.skip_step = "spec-ui"

SubjectTokensValid(a) ==
    /\ a.subject_include # <<>> => expand_subject_tokens(a.subject_include).ok
    /\ a.subject_exclude # <<>> => expand_subject_tokens(a.subject_exclude).ok

\* C6: a command line with both --only-step and --skip-step is rejected when
\* it is parsed, before anything else runs, and no command vector built in
\* a run of main holds both an '--only-<step>' and a '--skip-<step>' flag.
C6_OnlySkipRejected ==
    /\ (pc # "start" /\ args.only_step # None /\ args.skip_step # None)
           => (pc = "failed" /\ outcome = Raise("usage") /\ spawned = 0)
    /\ outcome.ok => ~(HasFlag(outcome.val, "--only-") /\ HasFlag(outcome.val, "--skip-"))

C6_Witness ==
    /\ pc = "failed"
    /\ args.only_step = "run" /\ args.skip_step = "spec-ui"
    /\ outcome = Raise("usage")

\* C7 as claimed: group-level without an input directory always fails with
\* MissingRequiredOption.
C7_AlwaysMissingRequiredOption ==
    (pc = "returned" /\ args.mode = "group-level" /\ NoInputDirectory(args))
        => (~outcome.ok /\ outcome.err = "MissingRequiredOption:input-directory")

\* C7 as amended: group-level without an input directory never returns a
\* command vector; the failure is MissingRequiredOption when the image
\* variable is set, the image exists and a supplied seed directory exists,
\* and otherwise the failure of the earlier environment or seed check.
C7_GroupLevelNeverBuilds ==
    (pc = "returned" /\ args.mode = "group-level" /\ NoInputDirectory(args)) =>
        /\ ~outcome.ok
        /\ outcome.val = <<>>
        /\ outcome.err =
              IF environ \in {None, ""} THEN "MissingEnvironment:unset"
              ELSE IF ~fs.sif_exists THEN "MissingEnvironment:missing"
              ELSE IF args.seeddir # None /\ ~fs.seed_isdir THEN "InvalidSeedDirectory"
              ELSE "MissingRequiredOption:input-directory"

C7_Witness ==
    /\ pc = "returned"
    /\ callee = "run_HALFpipe"
    /\ args.mode = "group-level" /\ args.input_directory = ""
    /\ environ = "/img.sif" /\ fs.sif_exists
    /\ ~fs.workdir_isdir
    /\ outcome = Raise("MissingRequiredOption:input-directory")

\* C8: in a run of main the external process is started at most once, and
\* only without --dry-run, with the license in place, a process count of at
\* least 1 and the complete command vector of build_command; a run that
\* failed a validation, or a dry run, has started no process.
C8_SpawnOnlyAfterValidation ==
    /\ spawned <= 1
    /\ spawned = 1 =>
          /\ pc \in {"running", "done", "failed"}
          /\ ~args.dry_run
          /\ fs.dest # Absent
          /\ args.n_procs # <<>> /\ args.n_procs[1] >= 1
          /\ environ \notin {None, ""} /\ fs.sif_exists
          /\ args.seeddir # None => fs.seed_isdir
          /\ args.mode # "ui-old" => (fs.workdir_isdir /\ SubjectTokensValid(args))
          /\ args.mode = "group-level" => ~NoInputDirectory(args)
          /\ build_command(args, environ, fs).ok
          /\ pc = "running" => outcome = build_command(args, environ, fs)
    /\ (pc = "failed" /\ outcome.err # "CalledProcessError") => spawned = 0
    /\ (pc \in {"handoff", "done"} /\ args.dry_run) => spawned = 0
    /\ pc \in {"start", "license", "nprocs", "build", "handoff"} => spawned = 0

C8_Witness ==
    /\ pc = "running"
    /\ spawned = 1
    /\ args.mode = "model"
    /\ HasFlag(outcome.val, "--subject-include")

\* C9: ensure_freesurfer_license never overwrites. A present license file is
\* left as it is and the call succeeds, also without a source; an absent one
\* is copied from the source, and without a source the call fails with
\* LicenseSourceMissing and the file stays absent; a call that succeeds
\* leaves the file present, and a present file never changes afterwards.
C9_NeverOverwrites ==
    [][ /\ fs.dest # Absent => fs'.dest = fs.dest
        /\ pc = "license" =>
              /\ fs.dest # Absent => (fs' = fs /\ pc' = "nprocs")
              /\ (fs.dest = Absent /\ fs.source = Absent) =>
                     /\ pc' = "failed"
                     /\ outcome' = Raise("LicenseSourceMissing")
                     /\ fs' = fs
              /\ (fs.dest = Absent /\ pc' = "nprocs") => fs'.dest = fs.source
              /\ pc' = "nprocs" => fs'.dest # Absent ]_vars

\* the call succeeded on a file that differs from the source
C9_Witness ==
    /\ pc = "nprocs"
    /\ fs.dest \in {"v0", "partial"}
    /\ fs.source = "v1"

\* C10 as claimed: build_command of run_HALFpipe.py fails for a missing
\* working directory only when the selected step needs it; with no advanced
\* step the modes tui, model and group-level return a command vector whether
\* or not the working directory exists.
C10_WorkdirOnlyWhenNeeded ==
    (pc = "returned" /\ callee = "run_HALFpipe") =>
        /\ outcome.err = "MissingRequiredOption:workdir" => NeedsWorkdir(args)
        /\ ( /\ args.only_step = None /\ args.skip_step = None
             /\ args.mode \in {"tui", "model", "group-level"}
             /\ environ \notin {None, ""} /\ fs.sif_exists
             /\ args.seeddir # None => fs.seed_isdir
             /\ args.mode = "group-level" => ~NoInputDirectory(args)
             /\ SubjectTokensValid(args) ) => outcome.ok

\* the first SubjectId of expanding the single token d
AloneId(d) == expand_subject_tokens(<<d>>).val[1]

====
